---- MODULE Spec2Model ----
(***************************************************************************)
(* Model of src/app.py: the RUC lookup service.                            *)
(*                                                                         *)
(* Each request thread runs api_consultar_ruc -> consultar_ruc: parameter  *)
(* check, validar_ruc, cache check under cache_lock, admission through     *)
(* semaforo, configurar_driver, the Selenium resolution, the store under   *)
(* cache_lock, driver.quit() and the release of the semaphore, and the     *)
(* mapping of the outcome to an HTTP status.  The janitor thread runs      *)
(* limpiar_cache.  Time is the integer clock `now`; strings are sequences  *)
(* of one-character strings ("LF" is the line terminator "\n", "AR7" is    *)
(* U+0667 ARABIC-INDIC DIGIT SEVEN, a non-ASCII decimal digit).            *)
(***************************************************************************)
EXTENDS Integers, Sequences, FiniteSets, TLC

VARIABLES pc, ruc, resultado, status, cache_ruc, semaforo, now, wake,
          hits, cache_lock, janitor, shared

vars == <<pc, ruc, resultado, status, cache_ruc, semaforo, now, wake,
          hits, cache_lock, janitor, shared>>

(* ------------------------------ bounds -------------------------------- *)

\* last value of the clock
MaxTime == 3

\* number of distinct records the external page may yield for one RUC
NRec == 2

\* requests of one client that the model lets the limiter reject in a window
MaxRejected == 1

(* ------------------------- program constants -------------------------- *)

MAX_CONCURRENT_REQUESTS == 2

CACHE_TTL == 2

MAX_CACHE_SIZE == 2

\* line 310: "10 per minute"
LOOKUP_LIMIT == 10

\* line 48: "60 per minute", the limit of the routes without one of their own
DEFAULT_LIMIT == 60

\* line 310: the window of one minute, one unit of the clock
WINDOW == 1

\* the request-handling threads
Threads == {1, 2, 3}

(* ------------------------------ strings ------------------------------- *)

AsciiDigit == {"0", "1", "2", "3", "4", "5", "6", "7", "8", "9"}

\* characters of Unicode category Nd known to the model
DecimalDigit == AsciiDigit \cup {"AR7"}

\* the pattern class \d on a str pattern: any Unicode decimal digit
IsDigitClass(c) == c \in DecimalDigit

\* int(c) for a one-character string that is a decimal digit
DigitValue(c) ==
  CASE c = "0" -> 0 [] c = "1" -> 1 [] c = "2" -> 2 [] c = "3" -> 3
    [] c = "4" -> 4 [] c = "5" -> 5 [] c = "6" -> 6 [] c = "7" -> 7
    [] c = "8" -> 8 [] c = "9" -> 9 [] c = "AR7" -> 7

\* int(c) raises ValueError unless c is a decimal digit
IntRaises(c) == c \notin DecimalDigit

\* re.match(r'^\d{11}$', s): eleven \d characters, then the end of the
\* string or a single line terminator that ends the string
MatchesElevenDigits(s) ==
  /\ Len(s) \in {11, 12}
  /\ \A i \in 1..11 : IsDigitClass(s[i])
  /\ Len(s) = 12 => s[12] = "LF"

\* re.sub(r'\D', '', s)
StripNonDigits(s) == SelectSeq(s, IsDigitClass)

multiplicadores == <<5, 4, 3, 2, 7, 6, 5, 4, 3, 2>>

RECURSIVE SumaHasta(_, _)
\* sum(int(digito) * mult for digito, mult in zip(ruc[:10], multiplicadores))
SumaHasta(s, n) ==
  IF n = 0 THEN 0
  ELSE SumaHasta(s, n - 1) + DigitValue(s[n]) * multiplicadores[n]

\* the check digit without the mapping of 10 and 11
DigitoVerificador_raw(suma) == 11 - (suma % 11)

\* lines 133-138: the check digit from the weighted sum
DigitoVerificador(suma) ==
  LET resto == suma % 11
      dv == 11 - resto
  IN  IF dv = 10 THEN 0 ELSE IF dv = 11 THEN 1 ELSE dv

\* validar_ruc: "True", "False", or "ValueError" when int() raises
validar_ruc(s) ==
  IF ~MatchesElevenDigits(s) THEN "False"
  ELSE IF IntRaises(s[Len(s)]) THEN "ValueError"
  ELSE IF DigitoVerificador(SumaHasta(s, 10)) = DigitValue(s[Len(s)])
       THEN "True" ELSE "False"

(* ------------------------------ inputs -------------------------------- *)

Str(a, b, c, d, e, f, g, h, i, j, k) == <<a, b, c, d, e, f, g, h, i, j, k>>

\* "20100039207", "20131312955", "20100047218": RUCs with a right check digit
Ruc1 == Str("2", "0", "1", "0", "0", "0", "3", "9", "2", "0", "7")

Ruc2 == Str("2", "0", "1", "3", "1", "3", "1", "2", "9", "5", "5")

Ruc3 == Str("2", "0", "1", "0", "0", "0", "4", "7", "2", "1", "8")

\* "20100039208": a wrong check digit
RucBadCheck == Str("2", "0", "1", "0", "0", "0", "3", "9", "2", "0", "8")

\* "20100039207\n"
RucWithLF == Ruc1 \o <<"LF">>

\* request.args.get('ruc', None) without the parameter (None or "")
Missing == <<>>

(* ------------------------------ results ------------------------------- *)

NoResult == [error |-> "none", data |-> 0]

\* the dict of the thirteen fields built at lines 254-268, version v of the page
Record(v) == [error |-> "none", data |-> v]

\* a dict with the key 'error'
ErrorResult(kind) == [error |-> kind, data |-> 0]

\* lines 326-328: 'error' in resultado -> 400, else 200
StatusOf(res) == IF res.error # "none" THEN 400 ELSE 200

(* ------------------------------- cache -------------------------------- *)

\* position of key in the dict (0 when absent); a dict keeps insertion order
RECURSIVE IndexOf(_, _, _)
IndexOf(c, key, i) ==
  IF i > Len(c) THEN 0
  ELSE IF c[i].ruc = key THEN i ELSE IndexOf(c, key, i + 1)

Keys(c) == {c[i].ruc : i \in 1..Len(c)}

\* del cache_ruc[key]
Del(c, i) == [j \in 1..(Len(c) - 1) |-> IF j < i THEN c[j] ELSE c[j + 1]]

\* an entry served up to and including the age CACHE_TTL
Fresh_inclusive(ts, t) == t - ts <= CACHE_TTL

\* line 167: the entry is served while its age is below CACHE_TTL
Fresh(ts, t) == t - ts < CACHE_TTL

\* line 79: the janitor removes an entry whose age is above CACHE_TTL
SweepExpired(ts, t) == t - ts > CACHE_TTL

\* the entry stored last instead of the one stored first
OldestIndex_newest(c) ==
  CHOOSE i \in 1..Len(c) : \A j \in 1..Len(c) : c[i].timestamp >= c[j].timestamp

\* line 275: min(cache_ruc.items(), key=timestamp): the first entry, in
\* dict order, whose timestamp is the smallest
OldestIndex(c) ==
  CHOOSE i \in 1..Len(c) :
    /\ \A j \in 1..Len(c) : c[i].timestamp <= c[j].timestamp
    /\ \A j \in 1..(i - 1) : c[j].timestamp > c[i].timestamp

\* a list of stored results in place of the dict: every store adds an entry
Put_append(c, key, data, t) ==
  Append(c, [ruc |-> key, data |-> data, timestamp |-> t])

\* lines 278-281: cache_ruc[ruc] = {...}: overwrite in place or append
Put(c, key, data, t) ==
  LET e == [ruc |-> key, data |-> data, timestamp |-> t]
      i == IndexOf(c, key, 1)
  IN  IF i = 0 THEN Append(c, e) ELSE [c EXCEPT ![i] = e]

\* an eviction only above the size limit
MustEvict_late(c) == Len(c) > MAX_CACHE_SIZE

\* line 274: the store evicts when the dict is at or above its size limit
MustEvict(c) == Len(c) >= MAX_CACHE_SIZE

\* lines 274-281 on a non-empty or non-full dict
StoreInto(c, key, data, t) ==
  IF MustEvict(c) THEN Put(Del(c, OldestIndex(c)), key, data, t)
  ELSE Put(c, key, data, t)

\* lines 78-81: the entries the sweep keeps
Swept(c, t) == SelectSeq(c, LAMBDA e : ~SweepExpired(e.timestamp, t))

(* ----------------------------- semaphore ------------------------------ *)

\* an acquire that never blocks
CanAcquire_nonblocking(s) == TRUE

\* threading.Semaphore.acquire blocks while the counter is zero
CanAcquire(s) == s > 0

\* the exit of `with semaforo:`
Released(s) == s + 1

(* ------------------------------ limiter ------------------------------- *)

\* the client keys (get_remote_address) whose counters the model keeps
Clients == {"a", "b"}

\* an address that sends one request and never returns: the limiter allows
\* it, and its counter is never read again
NewClient == "new"

\* the counter of a client key before its first request
NoHits == [count |-> 0, windowStart |-> 0]

\* the fixed window of the limiter: a window that has lasted WINDOW is
\* replaced by a new one that starts now; the request is counted
Counted(h, k, t) ==
  IF t - h[k].windowStart >= WINDOW
  THEN [h EXCEPT ![k] = [count |-> 1, windowStart |-> t]]
  ELSE [h EXCEPT ![k] = [count |-> h[k].count + 1, windowStart |-> h[k].windowStart]]

\* the limiter's answer for the counted request
WithinLimit(h, k) == h[k].count <= LOOKUP_LIMIT

(* ----------------------------- cache_lock ----------------------------- *)

\* cache_lock when no thread is inside a `with cache_lock:` block
NoOwner == <<>>

\* cache_lock while request thread t is inside a `with cache_lock:` block
Owner(t) == <<"request", t>>

\* cache_lock while the janitor thread is inside its `with cache_lock:` block
JanitorOwner == <<"janitor", 0>>

(* ------------------------- identity of results ------------------------ *)

\* sh[t] tells whether the dict bound to `resultado` in thread t is the very
\* dict that cache_ruc holds as 'data' for the identifier of t

\* thread t binds `resultado` to a new dict (lines 182, 254, 286, 289, 331)
Unshared(sh, t) == [sh EXCEPT ![t] = FALSE]

\* line 169: thread t returns cache_entry['data'], the dict of the entry
SharedByHit(sh, t) == [sh EXCEPT ![t] = TRUE]

\* entries have left the cache (lines 81, 172, 276): the dicts of the entries
\* that are left in c are the ones the cache had; r gives the identifiers
Surviving(sh, r, c) ==
  [u \in DOMAIN sh |-> sh[u] /\ r[u] \in {c[i].ruc : i \in 1..Len(c)}]

\* lines 278-281: the entry of t's identifier in c now holds the dict bound
\* to `resultado` in t ('data': resultado), and no longer the dict it had
SharedByStore(sh, r, c, t) ==
  [u \in DOMAIN sh |->
     IF u = t THEN TRUE
     ELSE sh[u] /\ r[u] # r[t] /\ r[u] \in {c[i].ruc : i \in 1..Len(c)}]

(* ------------------------------- state -------------------------------- *)

Init ==
  /\ pc = [t \in Threads |-> "idle"]
  /\ ruc = [t \in Threads |-> <<>>]
  /\ resultado = [t \in Threads |-> NoResult]
  /\ status = [t \in Threads |-> 0]
  /\ cache_ruc = <<>>
  /\ semaforo = MAX_CONCURRENT_REQUESTS
  /\ now = 0
  /\ wake = CACHE_TTL
  /\ hits = [k \in Clients |-> NoHits]
  /\ cache_lock = NoOwner
  /\ janitor = "sleep"
  /\ shared = [t \in Threads |-> FALSE]

\* the places where api_consultar_ruc returns: line 321 (no parameter), line
\* 327 after the return of line 158 (invalid), line 328 after the return of
\* line 169 (cache hit), lines 327-328 after the return of line 294, line 331;
\* and the rejection by the limiter of line 310, before the function is entered
Finished ==
  {"ret_missing", "ret_invalid", "ret_hit", "ret_result", "ret_exception", "ret_limited"}

\* the thread answers with the status code and the body
Respond(t, label, code, res) ==
  /\ pc' = [pc EXCEPT ![t] = label]
  /\ status' = [status EXCEPT ![t] = code]
  /\ resultado' = [resultado EXCEPT ![t] = res]

Goto(t, label) == pc' = [pc EXCEPT ![t] = label]

\* the limiter consulted after the parameter was read: a request without the
\* parameter is answered 400 whatever its count
Receive_late(t, s, k) ==
  /\ pc[t] \in {"idle"} \cup Finished
  /\ k \in Clients => Counted(hits, k, now)[k].count <= LOOKUP_LIMIT + MaxRejected
  /\ hits' = IF k \in Clients THEN Counted(hits, k, now) ELSE hits
  /\ IF s = Missing
     THEN /\ Respond(t, "ret_missing", 400, ErrorResult("missing"))
          /\ ruc' = [ruc EXCEPT ![t] = s]
     ELSE IF k \in Clients /\ ~WithinLimit(Counted(hits, k, now), k)
          THEN /\ Respond(t, "ret_limited", 429, ErrorResult("limited"))
               /\ ruc' = [ruc EXCEPT ![t] = Missing]
          ELSE /\ ruc' = [ruc EXCEPT ![t] = s]
               /\ Goto(t, "validar")
               /\ status' = [status EXCEPT ![t] = 0]
               /\ resultado' = [resultado EXCEPT ![t] = NoResult]
  /\ shared' = Unshared(shared, t)
  /\ UNCHANGED <<cache_ruc, semaforo, now, wake, cache_lock, janitor>>

\* the route without the decorator of line 310: the default limit of line 48
Receive_default(t, s, k) ==
  /\ pc[t] \in {"idle"} \cup Finished
  /\ k \in Clients => Counted(hits, k, now)[k].count <= LOOKUP_LIMIT + MaxRejected
  /\ hits' = IF k \in Clients THEN Counted(hits, k, now) ELSE hits
  /\ IF k \in Clients /\ Counted(hits, k, now)[k].count > DEFAULT_LIMIT
     THEN /\ Respond(t, "ret_limited", 429, ErrorResult("limited"))
          /\ ruc' = [ruc EXCEPT ![t] = Missing]
     ELSE /\ ruc' = [ruc EXCEPT ![t] = s]
          /\ IF s = Missing
             THEN Respond(t, "ret_missing", 400, ErrorResult("missing"))
             ELSE /\ Goto(t, "validar")
                  /\ status' = [status EXCEPT ![t] = 0]
                  /\ resultado' = [resultado EXCEPT ![t] = NoResult]
  /\ shared' = Unshared(shared, t)
  /\ UNCHANGED <<cache_ruc, semaforo, now, wake, cache_lock, janitor>>

\* lines 309-321: a request of client k with the parameter s. The limiter of
\* line 310 counts it and answers 429 when it is over the limit, before
\* api_consultar_ruc is entered; else the parameter is read, 400 when missing
Receive(t, s, k) ==
  /\ pc[t] \in {"idle"} \cup Finished
  /\ k \in Clients => Counted(hits, k, now)[k].count <= LOOKUP_LIMIT + MaxRejected
  /\ hits' = IF k \in Clients THEN Counted(hits, k, now) ELSE hits
  /\ IF k \in Clients /\ ~WithinLimit(Counted(hits, k, now), k)
     THEN /\ Respond(t, "ret_limited", 429, ErrorResult("limited"))
          /\ ruc' = [ruc EXCEPT ![t] = Missing]
     ELSE /\ ruc' = [ruc EXCEPT ![t] = s]
          /\ IF s = Missing
             THEN Respond(t, "ret_missing", 400, ErrorResult("missing"))
             ELSE /\ Goto(t, "validar")
                  /\ status' = [status EXCEPT ![t] = 0]
                  /\ resultado' = [resultado EXCEPT ![t] = NoResult]
  /\ shared' = Unshared(shared, t)
  /\ UNCHANGED <<cache_ruc, semaforo, now, wake, cache_lock, janitor>>

\* a lookup that goes on whatever validar_ruc answers
Validar_lenient(t) ==
  /\ pc[t] = "validar"
  /\ Goto(t, "check")
  /\ ruc' = [ruc EXCEPT ![t] = StripNonDigits(ruc[t])]
  /\ UNCHANGED <<status, resultado, cache_ruc, semaforo, now, wake, hits, cache_lock, janitor, shared>>

\* consultar_ruc, lines 156-161: validate, then sanitize; a ValueError of
\* validar_ruc reaches the handler of api_consultar_ruc (lines 329-331)
Validar(t) ==
  /\ pc[t] = "validar"
  /\ LET v == validar_ruc(ruc[t])
     IN  CASE v = "True" ->
                /\ Goto(t, "check")
                /\ ruc' = [ruc EXCEPT ![t] = StripNonDigits(ruc[t])]
                /\ UNCHANGED <<status, resultado>>
           [] v = "False" ->
                /\ Respond(t, "ret_invalid", StatusOf(ErrorResult("invalid")), ErrorResult("invalid"))
                /\ UNCHANGED ruc
           [] v = "ValueError" ->
                /\ Respond(t, "ret_exception", 500, ErrorResult("exception"))
                /\ UNCHANGED ruc
  /\ UNCHANGED <<cache_ruc, semaforo, now, wake, hits, cache_lock, janitor, shared>>

\* a cache check that never serves an entry
CacheCheck_miss(t) ==
  /\ pc[t] = "check"
  /\ Goto(t, "wait")
  /\ UNCHANGED <<ruc, resultado, status, cache_ruc, semaforo, now, wake, hits, cache_lock, janitor, shared>>

\* expiry counted from the last access: a hit sets the entry's time to now
CacheCheck_refresh(t) ==
  /\ pc[t] = "check"
  /\ LET i == IndexOf(cache_ruc, ruc[t], 1)
     IN  IF i = 0
         THEN /\ Goto(t, "wait")
              /\ UNCHANGED <<status, resultado, cache_ruc>>
         ELSE IF Fresh(cache_ruc[i].timestamp, now)
         THEN /\ Respond(t, "ret_hit", StatusOf(cache_ruc[i].data), cache_ruc[i].data)
              /\ cache_ruc' = [cache_ruc EXCEPT ![i].timestamp = now]
         ELSE /\ cache_ruc' = Del(cache_ruc, i)
              /\ Goto(t, "wait")
              /\ UNCHANGED <<status, resultado>>
  /\ UNCHANGED <<ruc, semaforo, now, wake, hits, cache_lock, janitor, shared>>

\* the lookup inside `with semaforo`: a permit is needed to look at the cache
CacheCheck_admitted(t) ==
  /\ pc[t] = "check"
  /\ CanAcquire(semaforo)
  /\ LET i == IndexOf(cache_ruc, ruc[t], 1)
     IN  IF i = 0
         THEN /\ Goto(t, "wait")
              /\ UNCHANGED <<status, resultado, cache_ruc>>
         ELSE IF Fresh(cache_ruc[i].timestamp, now)
         THEN /\ Respond(t, "ret_hit", StatusOf(cache_ruc[i].data), cache_ruc[i].data)
              /\ UNCHANGED cache_ruc
         ELSE /\ cache_ruc' = Del(cache_ruc, i)
              /\ Goto(t, "wait")
              /\ UNCHANGED <<status, resultado>>
  /\ UNCHANGED <<ruc, semaforo, now, wake, hits, cache_lock, janitor, shared>>

\* lines 164-173, the block under cache_lock: return the fresh entry, or
\* go on without an entry or after deleting the expired one
LookUp(t) ==
  /\ LET i == IndexOf(cache_ruc, ruc[t], 1)
     IN  IF i = 0
         THEN /\ Goto(t, "wait")
              /\ UNCHANGED <<status, resultado, cache_ruc, shared>>
         ELSE IF Fresh(cache_ruc[i].timestamp, now)
         THEN /\ Respond(t, "ret_hit", StatusOf(cache_ruc[i].data), cache_ruc[i].data)
              /\ shared' = SharedByHit(shared, t)
              /\ UNCHANGED cache_ruc
         ELSE /\ cache_ruc' = Del(cache_ruc, i)
              /\ shared' = Surviving(shared, ruc, Del(cache_ruc, i))
              /\ Goto(t, "wait")
              /\ UNCHANGED <<status, resultado>>
  /\ UNCHANGED <<ruc, semaforo, now, wake, hits, janitor>>

\* consultar_ruc, lines 163-173: cache_lock taken, the block, cache_lock
\* released, as one step
CacheCheck(t) ==
  /\ pc[t] = "check"
  /\ cache_lock = NoOwner
  /\ LookUp(t)
  /\ UNCHANGED cache_lock

\* line 163: `with cache_lock:` entered
LockForCheck(t) ==
  /\ pc[t] = "check"
  /\ cache_lock = NoOwner
  /\ cache_lock' = Owner(t)
  /\ Goto(t, "check_cs")
  /\ UNCHANGED <<ruc, resultado, status, cache_ruc, semaforo, now, wake, hits, janitor, shared>>

\* the block with the permit wait of line 177 inside it: cache_lock is kept
\* when the lookup goes on to the resolver
CacheCheckLocked_nested(t) ==
  /\ pc[t] = "check_cs"
  /\ LookUp(t)
  /\ cache_lock' = IF pc'[t] = "wait" THEN cache_lock ELSE NoOwner

\* lines 164-173 by the thread that holds cache_lock; the lock is released
\* when the block is left, by the return of line 169 or at its end
CacheCheckLocked(t) ==
  /\ pc[t] = "check_cs"
  /\ LookUp(t)
  /\ cache_lock' = NoOwner

\* line 177: `with semaforo:` entered
SemAcquire(t) ==
  /\ pc[t] = "wait"
  /\ CanAcquire(semaforo)
  /\ semaforo' = semaforo - 1
  /\ Goto(t, "driver")
  /\ UNCHANGED <<ruc, resultado, status, cache_ruc, now, wake, hits, cache_lock, janitor, shared>>

\* line 179: configurar_driver returns a driver
ConfigurarDriver(t) ==
  /\ pc[t] = "driver"
  /\ Goto(t, "resolve")
  /\ UNCHANGED <<ruc, resultado, status, cache_ruc, semaforo, now, wake, hits, cache_lock, janitor, shared>>

\* the driver set up outside the guarded release: the permit is kept
DriverFail_leak(t) ==
  /\ pc[t] = "driver"
  /\ Respond(t, "ret_exception", 500, ErrorResult("exception"))
  /\ UNCHANGED <<ruc, cache_ruc, semaforo, now, wake, hits, cache_lock, janitor, shared>>

\* lines 110-112: configurar_driver raises WebDriverException; the `with`
\* block is left and the exception reaches api_consultar_ruc (500)
DriverFail(t) ==
  /\ pc[t] = "driver"
  /\ semaforo' = Released(semaforo)
  /\ Respond(t, "ret_exception", 500, ErrorResult("exception"))
  /\ UNCHANGED <<ruc, cache_ruc, now, wake, hits, cache_lock, janitor, shared>>

\* lines 185-270: the page was fetched and parsed into a record
ResolveOk(t, v) ==
  /\ pc[t] = "resolve"
  /\ resultado' = [resultado EXCEPT ![t] = Record(v)]
  /\ Goto(t, "store")
  /\ UNCHANGED <<ruc, status, cache_ruc, semaforo, now, wake, hits, cache_lock, janitor, shared>>

\* a failure that goes on to the store
ResolveTimeout_stored(t) ==
  /\ pc[t] = "resolve"
  /\ resultado' = [resultado EXCEPT ![t] = ErrorResult("timeout")]
  /\ Goto(t, "store")
  /\ UNCHANGED <<ruc, status, cache_ruc, semaforo, now, wake, hits, cache_lock, janitor, shared>>

\* lines 284-286: TimeoutException or NoSuchElementException
ResolveTimeout(t) ==
  /\ pc[t] = "resolve"
  /\ resultado' = [resultado EXCEPT ![t] = ErrorResult("timeout")]
  /\ Goto(t, "quit")
  /\ UNCHANGED <<ruc, status, cache_ruc, semaforo, now, wake, hits, cache_lock, janitor, shared>>

\* lines 287-289: any other exception of the resolution
ResolveFault(t) ==
  /\ pc[t] = "resolve"
  /\ resultado' = [resultado EXCEPT ![t] = ErrorResult("unexpected")]
  /\ Goto(t, "quit")
  /\ UNCHANGED <<ruc, status, cache_ruc, semaforo, now, wake, hits, cache_lock, janitor, shared>>

\* lines 273-282, under cache_lock; min() of an empty dict raises ValueError,
\* which the handler of lines 287-289 turns into an error result
StoreBlock(t) ==
  /\ IF MustEvict(cache_ruc) /\ cache_ruc = <<>>
     THEN /\ resultado' = [resultado EXCEPT ![t] = ErrorResult("unexpected")]
          /\ shared' = Unshared(shared, t)
          /\ UNCHANGED cache_ruc
     ELSE /\ cache_ruc' = StoreInto(cache_ruc, ruc[t], resultado[t], now)
          /\ shared' = SharedByStore(shared, ruc,
                                     StoreInto(cache_ruc, ruc[t], resultado[t], now), t)
          /\ UNCHANGED resultado
  /\ Goto(t, "quit")
  /\ UNCHANGED <<ruc, status, semaforo, now, wake, hits, janitor>>

\* lines 273-282: cache_lock taken, the block, cache_lock released, as one step
Store(t) ==
  /\ pc[t] = "store"
  /\ cache_lock = NoOwner
  /\ StoreBlock(t)
  /\ UNCHANGED cache_lock

\* line 273: `with cache_lock:` entered
LockForStore(t) ==
  /\ pc[t] = "store"
  /\ cache_lock = NoOwner
  /\ cache_lock' = Owner(t)
  /\ Goto(t, "store_cs")
  /\ UNCHANGED <<ruc, resultado, status, cache_ruc, semaforo, now, wake, hits, janitor, shared>>

\* cache_lock.acquire() in place of `with cache_lock:`: the lock is kept
StoreLocked_held(t) ==
  /\ pc[t] = "store_cs"
  /\ StoreBlock(t)
  /\ UNCHANGED cache_lock

\* lines 274-282 by the thread that holds cache_lock, which is released when
\* the block is left
StoreLocked(t) ==
  /\ pc[t] = "store_cs"
  /\ StoreBlock(t)
  /\ cache_lock' = NoOwner

\* lines 290-294 and 326-328: driver.quit(), the `with` block is left,
\* resultado is returned and mapped to a status
Quit(t) ==
  /\ pc[t] = "quit"
  /\ semaforo' = Released(semaforo)
  /\ Respond(t, "ret_result", StatusOf(resultado[t]), resultado[t])
  /\ UNCHANGED <<ruc, cache_ruc, now, wake, hits, cache_lock, janitor, shared>>

\* line 291: driver.quit() raises; the `with` block is left and the
\* exception reaches api_consultar_ruc (500)
QuitFail(t) ==
  /\ pc[t] = "quit"
  /\ semaforo' = Released(semaforo)
  /\ Respond(t, "ret_exception", 500, ErrorResult("exception"))
  /\ shared' = Unshared(shared, t)
  /\ UNCHANGED <<ruc, cache_ruc, now, wake, hits, cache_lock, janitor>>

\* limpiar_cache, lines 76-82: after the sleep, one sweep under cache_lock
SweepBlock ==
  /\ cache_ruc' = Swept(cache_ruc, now)
  /\ shared' = Surviving(shared, ruc, Swept(cache_ruc, now))
  /\ wake' = now + CACHE_TTL
  /\ UNCHANGED <<pc, ruc, resultado, status, semaforo, now, hits>>

\* limpiar_cache without its `while True:`: the thread ends after one sweep
Sweep_once ==
  /\ now >= wake
  /\ janitor = "sleep"
  /\ cache_lock = NoOwner
  /\ SweepBlock
  /\ janitor' = "ended"
  /\ UNCHANGED cache_lock

\* lines 76-82: the sleep is over; cache_lock taken, the block, cache_lock
\* released, as one step
Sweep ==
  /\ now >= wake
  /\ janitor = "sleep"
  /\ cache_lock = NoOwner
  /\ SweepBlock
  /\ UNCHANGED <<cache_lock, janitor>>

\* lines 76-77: the sleep is over and `with cache_lock:` is entered
LockForSweep ==
  /\ now >= wake
  /\ janitor = "sleep"
  /\ cache_lock = NoOwner
  /\ cache_lock' = JanitorOwner
  /\ janitor' = "sweep_cs"
  /\ UNCHANGED <<pc, ruc, resultado, status, cache_ruc, semaforo, now, wake, hits, shared>>

\* lines 78-82 by the janitor holding cache_lock, which is released when the
\* block is left; the loop goes back to its sleep
SweepLocked ==
  /\ janitor = "sweep_cs"
  /\ SweepBlock
  /\ cache_lock' = NoOwner
  /\ janitor' = "sleep"

\* the clock advances
Tick ==
  /\ now < MaxTime
  /\ now' = now + 1
  /\ UNCHANGED <<pc, ruc, resultado, status, cache_ruc, semaforo, wake, hits, cache_lock, janitor, shared>>

\* t lowered by one, for times that are told from the end of the clock
Lowered(t) == IF t > 0 THEN t - 1 ELSE 0

\* the clock at its end: instead of now going up, the times kept in the state
\* go down by one. Ages of MaxTime or more are all kept as MaxTime, which is
\* more than CACHE_TTL and more than WINDOW, the ages the program compares with
TickShift ==
  /\ now = MaxTime
  /\ cache_ruc' = [i \in 1..Len(cache_ruc) |->
                     [cache_ruc[i] EXCEPT !.timestamp = Lowered(@)]]
  /\ wake' = Lowered(wake)
  /\ hits' = [k \in Clients |-> [hits[k] EXCEPT !.windowStart = Lowered(@)]]
  /\ UNCHANGED <<pc, ruc, resultado, status, semaforo, now, cache_lock, janitor, shared>>

\* time goes on
Advance == Tick \/ TickShift

\* the steps of the request threads T, with identifiers from I, page
\* versions from V and clients from K, and of the janitor and the clock
Next(T, I, V, K) ==
  \/ \E t \in T, s \in I, k \in K : Receive(t, s, k)
  \/ \E t \in T : Validar(t)
  \/ \E t \in T : CacheCheck(t)
  \/ \E t \in T : SemAcquire(t)
  \/ \E t \in T : ConfigurarDriver(t)
  \/ \E t \in T : DriverFail(t)
  \/ \E t \in T, v \in V : ResolveOk(t, v)
  \/ \E t \in T : ResolveTimeout(t)
  \/ \E t \in T : ResolveFault(t)
  \/ \E t \in T : Store(t)
  \/ \E t \in T : Quit(t)
  \/ \E t \in T : QuitFail(t)
  \/ Sweep
  \/ Tick

\* the same steps with a clock that never stops
NextLive(T, I, V, K) ==
  \/ \E t \in T, s \in I, k \in K : Receive(t, s, k)
  \/ \E t \in T : Validar(t)
  \/ \E t \in T : CacheCheck(t)
  \/ \E t \in T : SemAcquire(t)
  \/ \E t \in T : ConfigurarDriver(t)
  \/ \E t \in T : DriverFail(t)
  \/ \E t \in T, v \in V : ResolveOk(t, v)
  \/ \E t \in T : ResolveTimeout(t)
  \/ \E t \in T : ResolveFault(t)
  \/ \E t \in T : Store(t)
  \/ \E t \in T : Quit(t)
  \/ \E t \in T : QuitFail(t)
  \/ Sweep
  \/ Tick
  \/ TickShift

\* the same steps with the entry into each `with cache_lock:` block as a step
\* of its own
NextLock(T, I, V, K) ==
  \/ \E t \in T, s \in I, k \in K : Receive(t, s, k)
  \/ \E t \in T : Validar(t)
  \/ \E t \in T : LockForCheck(t)
  \/ \E t \in T : CacheCheckLocked(t)
  \/ \E t \in T : SemAcquire(t)
  \/ \E t \in T : ConfigurarDriver(t)
  \/ \E t \in T : DriverFail(t)
  \/ \E t \in T, v \in V : ResolveOk(t, v)
  \/ \E t \in T : ResolveTimeout(t)
  \/ \E t \in T : ResolveFault(t)
  \/ \E t \in T : LockForStore(t)
  \/ \E t \in T : StoreLocked(t)
  \/ \E t \in T : Quit(t)
  \/ \E t \in T : QuitFail(t)
  \/ LockForSweep
  \/ SweepLocked
  \/ Tick

\* the steps of NextLock with a clock that never stops
NextFair(T, I, V, K) ==
  \/ NextLock(T, I, V, K)
  \/ TickShift

\* a step of thread t that needs no other thread: it is taken when the
\* thread is scheduled
Runs(t) ==
  \/ Validar(t)
  \/ CacheCheckLocked(t)
  \/ StoreLocked(t)
  \/ Quit(t)
  \/ QuitFail(t)

\* configurar_driver and the resolver call of thread t come to an end, with a
\* result or with an exception
Returns(t, V) ==
  \/ ConfigurarDriver(t)
  \/ DriverFail(t)
  \/ \E v \in V : ResolveOk(t, v)
  \/ ResolveTimeout(t)
  \/ ResolveFault(t)

\* thread t takes cache_lock or a permit
Acquires(t) ==
  \/ LockForCheck(t)
  \/ SemAcquire(t)
  \/ LockForStore(t)

\* the next step of the request of thread t
Step(t, V) == Runs(t) \/ Returns(t, V) \/ Acquires(t)

\* the inputs of the validator: "20100030" followed by any three digits,
\* "20100039207" with one digit replaced, and strings that are not eleven
\* ASCII digits ("123", "2010003920A", ten and twelve digits, a trailing line
\* terminator, a non-ASCII digit)
ValidatorInputs ==
  {<<"2", "0", "1", "0", "0", "0", "3", "0", a, b, c>> : a, b, c \in AsciiDigit}
  \cup {[Ruc1 EXCEPT ![i] = d] : i \in 1..11, d \in AsciiDigit}
  \cup {<<"1", "2", "3">>, [Ruc1 EXCEPT ![11] = "A"], [Ruc1 EXCEPT ![1] = "A"],
        SubSeq(Ruc1, 1, 10), Ruc1 \o <<"7">>, RucWithLF,
        SubSeq(Ruc1, 1, 10) \o <<"LF">>, RucWithLF \o <<"LF">>,
        [Ruc1 EXCEPT ![11] = "AR7"], [Ruc1 EXCEPT ![3] = "AR7"], Missing}

\* three threads, one valid identifier and the invalid inputs, two versions
Spec ==
  Init /\ [][Next(Threads, {Ruc1, RucBadCheck, RucWithLF, Missing}, 1..NRec, {NewClient})]_vars

\* two threads, three valid identifiers, one version
SpecCache == Init /\ [][Next({1, 2}, {Ruc1, Ruc2, Ruc3}, {1}, {NewClient})]_vars

\* one thread receiving the inputs of the validator and validating them
NextV ==
  \/ \E s \in ValidatorInputs : Receive(1, s, NewClient)
  \/ Validar(1)

SpecV == Init /\ [][NextV]_vars

\* two threads with the identifiers and the record versions of Spec
SpecPair ==
  Init /\ [][Next({1, 2}, {Ruc1, RucBadCheck, RucWithLF, Missing}, 1..NRec, {NewClient})]_vars

\* two request threads and two identifiers, with time that goes on for ever
\* and a janitor thread that is scheduled: when its sleep is over it sweeps
SpecLive ==
  /\ Init
  /\ [][NextLive({1, 2}, {Ruc1, Ruc2}, {1}, {NewClient})]_vars
  /\ WF_vars(Advance)
  /\ WF_vars(Sweep)

\* three threads and one identifier, the lock of the cache taken and released
\* in steps of their own, time that may go on for ever. Every thread is
\* scheduled, every call of the driver and the resolver ends, and a thread that
\* can again and again take cache_lock or a permit gets it in the end; the
\* janitor that has taken cache_lock is scheduled
SpecFair ==
  /\ Init
  /\ [][NextFair(Threads, {Ruc1}, {1}, {NewClient})]_vars
  /\ \A t \in Threads : SF_vars(Step(t, {1}))
  /\ WF_vars(SweepLocked)

\* two threads and two valid identifiers, the lock of the cache taken and
\* released in steps of their own
SpecLock == Init /\ [][NextLock({1, 2}, {Ruc1, Ruc2}, {1}, {NewClient})]_vars

\* two threads, a valid identifier or no parameter, the requests of one
\* counted client and of addresses seen once
SpecRate == Init /\ [][Next({1, 2}, {Ruc1, Missing}, {1}, {"a", NewClient})]_vars

\* one thread serving the requests of two counted clients
SpecClients == Init /\ [][Next({1}, {Ruc1, Missing}, {1}, Clients)]_vars

(* ------------------------------ claims -------------------------------- *)

\* the labels inside `with semaforo:` (lines 178-292)
InSection == {"driver", "resolve", "store", "store_cs", "quit"}

\* the threads holding a permit
Held == {t \in Threads : pc[t] \in InSection}

\* C1: at most MAX_CONCURRENT_REQUESTS requests hold a permit (have a
\* resolver session in flight) at any time, and the permit count stays in
\* 0..MAX_CONCURRENT_REQUESTS
C1_AdmissionBound ==
  /\ Cardinality(Held) <= MAX_CONCURRENT_REQUESTS
  /\ semaforo \in 0..MAX_CONCURRENT_REQUESTS

\* all permits are held and another request waits for one
C1_Witness ==
  /\ semaforo = 0
  /\ Cardinality(Held) = MAX_CONCURRENT_REQUESTS
  /\ \E t \in Threads : pc[t] = "wait"

\* C2: every permit acquired is released exactly once on every exit of the
\* guarded section, so the permits not held by a request inside the section
\* are all available; when no request is inside, all of them are
C2_ReleasedOnEveryExit ==
  /\ semaforo + Cardinality(Held) = MAX_CONCURRENT_REQUESTS
  /\ (\A t \in Threads : pc[t] \in Finished \cup {"idle"})
       => semaforo = MAX_CONCURRENT_REQUESTS

\* three requests have left the section, by a success, by a resolver failure
\* and by an exception, and every permit is back
C2_Witness ==
  /\ semaforo = MAX_CONCURRENT_REQUESTS
  /\ \E t, u, w \in Threads :
       /\ pc[t] = "ret_result" /\ resultado[t].error = "none"
       /\ pc[u] = "ret_result" /\ resultado[u].error \in {"timeout", "unexpected"}
       /\ pc[w] = "ret_exception" /\ ruc[w] = Ruc1

\* the entry of key k in the dict c has reached the age CACHE_TTL at time t
Aged(c, k, t) ==
  \E i \in 1..Len(c) : c[i].ruc = k /\ t - c[i].timestamp >= CACHE_TTL

\* C3: a cache check returns the stored value only when the entry's age is
\* below CACHE_TTL; on an entry of age >= CACHE_TTL it deletes the entry and
\* goes on as a miss
C3_NoStaleHit ==
  [][\A t \in Threads :
       (pc[t] = "check" /\ pc'[t] # "check") =>
          IF Aged(cache_ruc, ruc[t], now)
          THEN /\ pc'[t] = "wait"
               /\ ruc[t] \notin Keys(cache_ruc')
               /\ Len(cache_ruc') = Len(cache_ruc) - 1
          ELSE /\ cache_ruc' = cache_ruc
               /\ pc'[t] = "ret_hit" <=> ruc[t] \in Keys(cache_ruc)
               /\ pc'[t] = "ret_hit" =>
                    \E i \in 1..Len(cache_ruc) :
                       /\ cache_ruc[i].ruc = ruc[t]
                       /\ resultado'[t] = cache_ruc[i].data]_vars

\* an entry stored at time 0 was served to one request and, at the time
\* CACHE_TTL, found expired and deleted: the request that looks the same
\* identifier up waits for a permit
C3_Witness ==
  /\ now = CACHE_TTL
  /\ cache_ruc = <<>>
  /\ \E t, u \in Threads :
       /\ pc[t] = "wait" /\ ruc[t] = Ruc1
       /\ pc[u] = "ret_hit" /\ ruc[u] = Ruc1

\* thread t stores in this step
Stores(t) == pc[t] = "store" /\ pc'[t] = "quit"

\* C4: the cache never holds more than MAX_CACHE_SIZE entries, and the store
\* of an identifier that is not in a full cache leaves it full
C4_Capacity ==
  /\ [](Len(cache_ruc) <= MAX_CACHE_SIZE)
  /\ [][\A t \in Threads :
          (Stores(t) /\ Len(cache_ruc) = MAX_CACHE_SIZE
             /\ ruc[t] \notin Keys(cache_ruc))
          => Len(cache_ruc') = MAX_CACHE_SIZE]_vars

\* at time 0 the cache is full, a request has just stored one identifier and
\* the identifier another request stored is no longer there: three distinct
\* identifiers were stored
C4_Witness ==
  /\ now = 0
  /\ Len(cache_ruc) = MAX_CACHE_SIZE
  /\ \E t, u \in Threads :
       /\ pc[t] = "quit" /\ resultado[t].error = "none"
       /\ cache_ruc[Len(cache_ruc)].ruc = ruc[t]
       /\ pc[u] = "ret_result" /\ status[u] = 200
       /\ ruc[u] \notin Keys(cache_ruc)

\* C5: a store that evicts removes exactly one entry, one whose insertion
\* timestamp is the smallest of the entries present, and leaves the other
\* entries as they are
C5_EvictsOldest ==
  [][\A t \in Threads :
       (Stores(t) /\ Len(cache_ruc) >= MAX_CACHE_SIZE /\ cache_ruc # <<>>) =>
          \E i \in 1..Len(cache_ruc) :
             /\ \A j \in 1..Len(cache_ruc) :
                  cache_ruc[i].timestamp <= cache_ruc[j].timestamp
             /\ Keys(cache_ruc') = (Keys(cache_ruc) \ {cache_ruc[i].ruc}) \cup {ruc[t]}
             /\ \A j \in 1..Len(cache_ruc) :
                  (j # i /\ cache_ruc[j].ruc # ruc[t]) =>
                     \E k \in 1..Len(cache_ruc') : cache_ruc'[k] = cache_ruc[j]]_vars

\* before any entry can expire, a request has just stored into a full cache:
\* the entries left were all stored after time 0 and the identifier another
\* request stored earlier was evicted
C5_Witness ==
  /\ now < CACHE_TTL
  /\ Len(cache_ruc) = MAX_CACHE_SIZE
  /\ \A i \in 1..Len(cache_ruc) : cache_ruc[i].timestamp > 0
  /\ \E t, u \in Threads :
       /\ pc[t] = "quit" /\ resultado[t].error = "none"
       /\ cache_ruc[Len(cache_ruc)].ruc = ruc[t]
       /\ pc[u] = "ret_result" /\ status[u] = 200
       /\ ruc[u] \notin Keys(cache_ruc)

\* C6: no cache entry holds a failure result, and the step in which a
\* resolution fails, like the return that follows it, leaves the cache as it is
C6_OnlyRecordsStored ==
  /\ [](\A i \in 1..Len(cache_ruc) : cache_ruc[i].data.error = "none")
  /\ [][\A t \in Threads :
          (/\ pc[t] \in {"resolve", "store", "quit"}
           /\ pc'[t] # pc[t]
           /\ resultado'[t].error # "none")
          => cache_ruc' = cache_ruc]_vars

\* a request failed in the resolver, the cache holds nothing, and a later
\* request for the same identifier is in the resolver again
C6_Witness ==
  /\ cache_ruc = <<>>
  /\ \E t, u \in Threads :
       /\ pc[t] = "ret_result" /\ status[t] = 400
       /\ resultado[t].error \in {"timeout", "unexpected"}
       /\ pc[u] = "resolve" /\ ruc[u] = ruc[t]

IsElevenAsciiDigits(s) == Len(s) = 11 /\ \A i \in 1..11 : s[i] \in AsciiDigit

\* the value of an ASCII digit
AsciiValue(c) == CHOOSE n \in 0..9 : <<"0", "1", "2", "3", "4", "5", "6", "7", "8", "9">>[n + 1] = c

\* the check value of the claim: weights 5,4,3,2,7,6,5,4,3,2 on the first ten
\* digits, 11 minus the sum modulo 11, with 10 read as 0 and 11 as 1
CheckValue(s) ==
  LET sum == 5 * AsciiValue(s[1]) + 4 * AsciiValue(s[2]) + 3 * AsciiValue(s[3])
             + 2 * AsciiValue(s[4]) + 7 * AsciiValue(s[5]) + 6 * AsciiValue(s[6])
             + 5 * AsciiValue(s[7]) + 4 * AsciiValue(s[8]) + 3 * AsciiValue(s[9])
             + 2 * AsciiValue(s[10])
      check == 11 - (sum % 11)
  IN  CASE check = 10 -> 0 [] check = 11 -> 1 [] OTHER -> check

\* the labels a request can be at once validar_ruc has been applied to its input
Validated == {"check", "ret_invalid", "ret_exception"}

\* C8: a string of eleven ASCII digits is accepted when its eleventh digit is
\* the check value of its first ten and rejected otherwise; 20100039207 is
\* accepted and is rejected with any other last digit
C8_ChecksumIff ==
  \A t \in Threads :
     (pc[t] \in Validated /\ IsElevenAsciiDigits(ruc[t])) =>
        /\ pc[t] = (IF CheckValue(ruc[t]) = AsciiValue(ruc[t][11])
                    THEN "check" ELSE "ret_invalid")
        /\ ruc[t] = Ruc1 => pc[t] = "check"
        /\ (SubSeq(ruc[t], 1, 10) = SubSeq(Ruc1, 1, 10) /\ ruc[t][11] # "7")
              => pc[t] = "ret_invalid"

\* 20100030030, whose check value is the 10 that is read as 0, was accepted
C8_Witness ==
  /\ pc[1] = "check"
  /\ ruc[1] = <<"2", "0", "1", "0", "0", "0", "3", "0", "0", "3", "0">>
  /\ CheckValue(ruc[1]) = 0

\* C9: an input that is not exactly eleven ASCII digits is rejected by the
\* validator: it is neither accepted nor does validation raise
C9_MalformedRejected ==
  \A t \in Threads :
     (pc[t] \in Validated /\ ~IsElevenAsciiDigits(ruc[t])) => pc[t] = "ret_invalid"

\* C10: a missing parameter or a validation failure is answered with 400, and
\* an unexpected fault of the resolution with 500
C10_StatusByErrorClass ==
  \A t \in Threads :
     /\ pc[t] \in {"ret_missing", "ret_invalid"} => status[t] = 400
     /\ (pc[t] \in Finished /\ resultado[t].error = "unexpected") => status[t] = 500


\* a step that serves a request of a counted client
Counts(k) == hits'[k] # hits[k]

\* C11: a request that the limiter counts over the limit is answered 429 and
\* nothing else happens: the parameter is not read, the cache, its lock and the
\* permits are as before, no other thread moves; and the next thing the rejected
\* thread does is to take a new request
C11_LimitedBeforeHandler ==
  [][/\ \A k \in Clients :
          Counts(k) /\ hits'[k].count > LOOKUP_LIMIT =>
            /\ \E t \in Threads :
                 /\ pc' = [pc EXCEPT ![t] = "ret_limited"]
                 /\ status' = [status EXCEPT ![t] = 429]
                 /\ ruc' = [ruc EXCEPT ![t] = Missing]
            /\ cache_ruc' = cache_ruc
            /\ semaforo' = semaforo
            /\ cache_lock' = cache_lock
     /\ \A t \in Threads :
          pc[t] = "ret_limited" /\ pc'[t] # pc[t] => pc'[t] \in {"validar", "ret_missing"}
    ]_vars

\* a request was rejected in the current window while the identifier is in the
\* cache and another request is in the resolver
C11_Witness ==
  \E t, u \in Threads :
    /\ pc[t] = "ret_limited" /\ status[t] = 429
    /\ pc[u] = "resolve"
    /\ Keys(cache_ruc) # {}
    /\ hits["a"].count > LOOKUP_LIMIT /\ hits["a"].windowStart = now


\* the step answers a request with 429
Rejects ==
  \E t \in Threads :
    pc[t] \in {"idle"} \cup Finished /\ pc' = [pc EXCEPT ![t] = "ret_limited"]

\* the step lets a request into api_consultar_ruc
Admits ==
  \E t \in Threads :
    /\ pc[t] \in {"idle"} \cup Finished
    /\ pc'[t] \in {"validar", "ret_missing"}
    /\ pc' = [pc EXCEPT ![t] = pc'[t]]

\* C12: a request of a client is the first of a new window when the window of
\* the client has lasted WINDOW, else it is one more of the current window; it
\* is let in when it is among the first LOOKUP_LIMIT of its window and rejected
\* when it is a later one; the counters of the other clients are as before
C12_FixedWindow ==
  [][\A k \in Clients :
       Counts(k) =>
         /\ \A j \in Clients \ {k} : hits'[j] = hits[j]
         /\ hits'[k] = IF now - hits[k].windowStart >= WINDOW
                       THEN [count |-> 1, windowStart |-> now]
                       ELSE [count |-> hits[k].count + 1,
                             windowStart |-> hits[k].windowStart]
         /\ hits'[k].count <= LOOKUP_LIMIT => Admits /\ ~Rejects
         /\ hits'[k].count > LOOKUP_LIMIT => Rejects /\ ~Admits
    ]_vars

\* in a window that is not the first, one client is over the limit and was
\* answered 429 while the other is within its limit
C12_Witness ==
  /\ now > 0
  /\ hits["a"].windowStart = now /\ hits["a"].count = LOOKUP_LIMIT + 1
  /\ hits["b"].windowStart = now /\ hits["b"].count \in 1..LOOKUP_LIMIT
  /\ pc[1] = "ret_limited"


\* the entries of c that are younger than CACHE_TTL at time t
Younger(c, t) == SelectSeq(c, LAMBDA e : t - e.timestamp < CACHE_TTL)

\* C13: a sweep of the janitor removes every entry whose age is CACHE_TTL or
\* more, an entry of age exactly CACHE_TTL included, and no younger entry
C13_SweepRemovesExpired ==
  [][wake' # wake => cache_ruc' = Younger(cache_ruc, now)]_vars


\* C15: a store removes an entry only when the identifier is new and the cache
\* is full; the store of an identifier that is already in the cache replaces its
\* entry, removes no other entry and leaves the number of entries as it was
C15_OverwriteKeepsOthers ==
  [][\A t \in Threads :
       Stores(t) =>
         /\ Keys(cache_ruc) \ Keys(cache_ruc') # {} =>
               ruc[t] \notin Keys(cache_ruc) /\ Len(cache_ruc) >= MAX_CACHE_SIZE
         /\ ruc[t] \in Keys(cache_ruc) =>
               Keys(cache_ruc') = Keys(cache_ruc) /\ Len(cache_ruc') = Len(cache_ruc)
    ]_vars


\* C16: the cache holds at most one entry for an identifier, and after the
\* store of a request the entry of its identifier is the result of that
\* request with the time of that store: of two requests that resolved the
\* same identifier at the same time, the one that stores later overwrites
C16_LaterStoreOverwrites ==
  /\ [](\A i, j \in 1..Len(cache_ruc) :
          cache_ruc[i].ruc = cache_ruc[j].ruc => i = j)
  /\ [][\A t \in Threads :
          Stores(t) =>
            \E i \in 1..Len(cache_ruc') :
              cache_ruc'[i] = [ruc |-> ruc[t], data |-> resultado[t], timestamp |-> now]
       ]_vars

\* two requests for one identifier hold a permit each and have both stored,
\* with different records; the cache has the record of one of them only
C16_Witness ==
  \E t, u \in Threads :
    /\ pc[t] = "quit" /\ pc[u] = "quit"
    /\ ruc[t] = ruc[u]
    /\ resultado[t].error = "none" /\ resultado[u].error = "none"
    /\ resultado[t] # resultado[u]
    /\ \E i \in 1..Len(cache_ruc) :
         cache_ruc[i].ruc = ruc[t] /\ cache_ruc[i].data = resultado[t]
    /\ \A i \in 1..Len(cache_ruc) : cache_ruc[i].data # resultado[u]


\* thread t is at the cache check and the cache has a fresh entry for its identifier
FreshAtCheck(t) ==
  /\ pc[t] = "check"
  /\ \E i \in 1..Len(cache_ruc) :
       cache_ruc[i].ruc = ruc[t] /\ Fresh(cache_ruc[i].timestamp, now)

\* C18: a request at the cache check with a fresh entry for its identifier can
\* take its step whatever the number of permits left, none included; the step
\* returns the cached value, and it leaves the permit counter and the set of
\* permit holders as they were
C18_HitWithoutAdmission ==
  /\ [](\A t \in Threads : FreshAtCheck(t) => ENABLED CacheCheck(t))
  /\ [][\A t \in Threads :
          FreshAtCheck(t) /\ pc'[t] # pc[t] =>
            /\ pc'[t] = "ret_hit"
            /\ \E i \in 1..Len(cache_ruc) :
                 cache_ruc[i].ruc = ruc[t] /\ resultado'[t] = cache_ruc[i].data
            /\ semaforo' = semaforo
            /\ {u \in Threads : pc'[u] \in InSection} = Held
       ]_vars

\* a request was answered from the cache and all the permits are held by the
\* other requests
C18_Witness ==
  \E t \in Threads :
    /\ pc[t] = "ret_hit" /\ status[t] = 200
    /\ semaforo = 0
    /\ Held = Threads \ {t}


\* thread t is answered from the cache in this step
Hits(t) == pc[t] = "check" /\ pc'[t] = "ret_hit"

\* C19: a hit leaves the cache as it was; an entry that is new or different
\* after a step was written by the store of that step, with the time of the
\* store; and a hit returns an entry only before its time plus CACHE_TTL
C19_HitLeavesCache ==
  [][/\ \A t \in Threads : Hits(t) =>
          /\ cache_ruc' = cache_ruc
          /\ \E i \in 1..Len(cache_ruc) :
               /\ cache_ruc[i].ruc = ruc[t]
               /\ resultado'[t] = cache_ruc[i].data
               /\ now < cache_ruc[i].timestamp + CACHE_TTL
     /\ \A i \in 1..Len(cache_ruc') :
          (\A j \in 1..Len(cache_ruc) : cache_ruc[j] # cache_ruc'[i]) =>
            \E t \in Threads :
              /\ Stores(t)
              /\ cache_ruc'[i] = [ruc |-> ruc[t], data |-> resultado[t], timestamp |-> now]
    ]_vars

\* two requests were answered from the same entry, which was stored at an
\* earlier time and still has the time and the value of its store
C19_Witness ==
  \E t, u \in Threads :
    /\ t # u
    /\ pc[t] = "ret_hit" /\ pc[u] = "ret_hit"
    /\ ruc[t] = ruc[u]
    /\ \E i \in 1..Len(cache_ruc) :
         /\ cache_ruc[i].ruc = ruc[t]
         /\ cache_ruc[i].data = resultado[t] /\ cache_ruc[i].data = resultado[u]
         /\ cache_ruc[i].timestamp = 0 /\ now = CACHE_TTL - 1


\* the positions of a request after its validation and before its answer
AfterValidation == {"check", "wait"} \cup InSection

\* C20: the step of a request whose identifier is not valid ends the request
\* with an error and leaves the cache and the permit counter as they were; a
\* request comes to the cache check only by a validation that answered True,
\* to the permit wait only from the cache check and to the resolver only from
\* the permit wait, so every request past validation has a valid identifier
C20_InvalidGoesToError ==
  /\ [](\A t \in Threads : pc[t] \in AfterValidation => validar_ruc(ruc[t]) = "True")
  /\ [][\A t \in Threads :
          /\ (pc[t] = "validar" /\ pc'[t] # pc[t] /\ validar_ruc(ruc[t]) # "True") =>
                /\ pc'[t] \in {"ret_invalid", "ret_exception"}
                /\ resultado'[t].error # "none"
                /\ status'[t] \in {400, 500}
                /\ cache_ruc' = cache_ruc
                /\ semaforo' = semaforo
          /\ (pc'[t] = "check" /\ pc[t] # "check") =>
                pc[t] = "validar" /\ validar_ruc(ruc[t]) = "True"
          /\ (pc'[t] = "wait" /\ pc[t] # "wait") => pc[t] = "check"
          /\ (pc'[t] \in InSection /\ pc[t] \notin InSection) => pc[t] = "wait"
       ]_vars

\* a request with a wrong check digit was answered 400 while the cache has an
\* entry and another request holds a permit
C20_Witness ==
  \E t \in Threads :
    /\ pc[t] = "ret_invalid" /\ status[t] = 400
    /\ ruc[t] = RucBadCheck
    /\ cache_ruc # <<>>
    /\ semaforo < MAX_CONCURRENT_REQUESTS


\* the request threads inside a `with cache_lock:` block
InCache == {t \in Threads : pc[t] \in {"check_cs", "store_cs"}}

\* C17: of the request threads in their cache check or store and the janitor
\* in its sweep, at most one is inside the block under cache_lock, and it is
\* the owner of the lock; a thread that owns the lock is inside such a block,
\* so it is neither waiting for a permit nor in its resolver call
C17_CacheLockExclusive ==
  /\ Cardinality(InCache) + (IF janitor = "sweep_cs" THEN 1 ELSE 0) <= 1
  /\ \A t \in Threads : t \in InCache <=> cache_lock = Owner(t)
  /\ janitor = "sweep_cs" <=> cache_lock = JanitorOwner
  /\ \A t \in Threads :
       pc[t] \in {"wait", "driver", "resolve"} => cache_lock # Owner(t)

\* a request is inside its store under cache_lock while the other request is
\* at its cache check and the janitor's sleep is over: both have to wait
C17_Witness ==
  \E t, u \in Threads :
    /\ pc[t] = "store_cs" /\ cache_lock = Owner(t)
    /\ pc[u] = "check"
    /\ janitor = "sleep" /\ now >= wake


\* the cache has an entry for identifier k whose age is CACHE_TTL or more
Expired(k) ==
  \E i \in 1..Len(cache_ruc) :
    cache_ruc[i].ruc = k /\ now - cache_ruc[i].timestamp >= CACHE_TTL

C21_CallersGetCopies ==
  \A t \in Threads : pc[t] \in {"ret_hit", "ret_result"} => ~shared[t]


\* the positions of a request that has been taken and not yet answered
Working ==
  {"validar", "check", "check_cs", "wait", "driver", "resolve", "store", "store_cs", "quit"}

====
